---- MODULE Spec2Model ----
(***************************************************************************)
(* Model of the libstns HTTP client (src/example.go): newClient, tlsConfig, *)
(* RequestURL, Request, setHeaders, setBasicAuth, and the VerifyWithUser    *)
(* call of the example program.                                             *)
(*                                                                          *)
(* Text is modelled at two grains.  Header names are sequences of one-      *)
(* character strings, so that strings.ToLower and the canonical form of a   *)
(* MIME header key are computed character by character.  URLs are           *)
(* sequences of tokens (scheme, ":", "/", host, path segments), so that     *)
(* url.Parse and path.Join are computed token by token.  A Go pointer that  *)
(* may be nil is a sequence of length 0 (nil) or 1.                         *)
(***************************************************************************)
EXTENDS Integers, Sequences, FiniteSets, TLC

(* ------------------------------ bounds --------------------------------- *)

\* largest RequestRetry an Options value carries
MaxRetry == 2
\* number of Request calls that may be in flight at once on one client
MaxCalls == 2

(* --------------------------- package values ---------------------------- *)

DefaultTimeout == 15
DefaultRetry == 3
StatusOK == 200
version == "0.0.1"

(* --------------------------- characters --------------------------------- *)

UpperChars ==
  <<"A","B","C","D","E","F","G","H","I","J","K","L","M",
    "N","O","P","Q","R","S","T","U","V","W","X","Y","Z">>

LowerChars ==
  <<"a","b","c","d","e","f","g","h","i","j","k","l","m",
    "n","o","p","q","r","s","t","u","v","w","x","y","z">>

ToLowerChar(ch) ==
  IF \E i \in 1..26 : UpperChars[i] = ch
    THEN LowerChars[CHOOSE i \in 1..26 : UpperChars[i] = ch]
    ELSE ch

ToUpperChar(ch) ==
  IF \E i \in 1..26 : LowerChars[i] = ch
    THEN UpperChars[CHOOSE i \in 1..26 : LowerChars[i] = ch]
    ELSE ch

\* strings.ToLower
ToLower(s) == [i \in 1..Len(s) |-> ToLowerChar(s[i])]

\* textproto.CanonicalMIMEHeaderKey, as http.Header.Add/Set/Get apply it:
\* the first letter and every letter after a hyphen upper-cased, the rest
\* lower-cased.
CanonicalMIMEHeaderKey(s) ==
  [i \in 1..Len(s) |->
     IF i = 1 \/ s[i - 1] = "-" THEN ToUpperChar(s[i]) ELSE ToLowerChar(s[i])]

(* --------------------------- header names ------------------------------- *)

supportHeaders ==
  { <<"u","s","e","r","-","h","i","g","h","e","s","t","-","i","d">>,
    <<"u","s","e","r","-","l","o","w","e","s","t","-","i","d">>,
    <<"g","r","o","u","p","-","h","i","g","h","e","s","t","-","i","d">>,
    <<"g","r","o","u","p","-","l","o","w","e","s","t","-","i","d">> }

hUserAgent == <<"U","s","e","r","-","A","g","e","n","t">>
hAuthorization == <<"A","u","t","h","o","r","i","z","a","t","i","o","n">>

(* ------------------------------ errors ---------------------------------- *)

\* a Go error value: kind "nil" is the nil error, msg is the text of Error()
NilError == [kind |-> "nil", msg |-> <<>>]
Error(kind, msg) == [kind |-> kind, msg |-> msg]

(* ------------------------------- URLs ----------------------------------- *)

\* a token url.Parse rejects (an invalid percent escape)
BadEscape == "%zz"

RECURSIVE IndexFrom(_, _, _)
\* least index i >= from with s[i] = tok, or Len(s) + 1 when there is none
IndexFrom(s, tok, from) ==
  IF from > Len(s) THEN Len(s) + 1
  ELSE IF s[from] = tok THEN from
  ELSE IndexFrom(s, tok, from + 1)

\* strings.Index(s, prefix) == 0, prefix being one token
HasPrefix(s, prefix) == Len(s) >= 1 /\ s[1] = prefix

\* url.Parse: scheme ":" [ "//" authority ] path
urlParse(s) ==
  LET hasScheme == Len(s) >= 2 /\ s[2] = ":"
      scheme == IF hasScheme THEN s[1] ELSE ""
      rest == IF hasScheme THEN SubSeq(s, 3, Len(s)) ELSE s
      hasAuthority == Len(rest) >= 2 /\ rest[1] = "/" /\ rest[2] = "/"
      pathStart == IF hasAuthority THEN IndexFrom(rest, "/", 3) ELSE 1
      host == IF hasAuthority THEN SubSeq(rest, 3, pathStart - 1) ELSE <<>>
      urlPath == SubSeq(rest, pathStart, Len(rest))
  IN IF \E i \in 1..Len(s) : s[i] = BadEscape
       THEN [err |-> Error("url.Error", <<"invalid URL escape">>),
             url |-> <<>>]
       ELSE [err |-> NilError,
             url |-> <<[Scheme |-> scheme, Host |-> host, Path |-> urlPath,
                        RawQuery |-> <<>>]>>]

RECURSIVE Segments(_)
\* the non-empty elements of a path between its slashes
Segments(p) ==
  IF p = <<>> THEN <<>>
  ELSE IF Head(p) = "/" THEN Segments(Tail(p))
  ELSE <<Head(p)>> \o Segments(Tail(p))

RECURSIVE JoinSegments(_)
JoinSegments(segs) ==
  IF segs = <<>> THEN <<>>
  ELSE IF Len(segs) = 1 THEN segs
  ELSE <<Head(segs), "/">> \o JoinSegments(Tail(segs))

\* path.Clean on a path without "." and ".." elements
pathClean(p) ==
  LET rooted == Len(p) >= 1 /\ p[1] = "/"
      body == JoinSegments(Segments(p))
  IN IF p = <<>> THEN <<".">>
     ELSE IF rooted THEN <<"/">> \o body
     ELSE IF body = <<>> THEN <<".">> ELSE body

\* path.Join(a, b)
pathJoin(a, b) ==
  IF a = <<>> /\ b = <<>> THEN <<>>
  ELSE IF a = <<>> THEN pathClean(b)
  ELSE IF b = <<>> THEN pathClean(a)
  ELSE pathClean(a \o <<"/">> \o b)

(* --------------------------- trust material ----------------------------- *)

NoCA == ""
GoodCA == "/etc/stns/ca.pem"
MissingCA == "/etc/stns/missing.pem"
JunkCA == "/etc/stns/junk.pem"
GoodCert == "/etc/stns/client.crt"
BadCert == "/etc/stns/broken.crt"
GoodKey == "/etc/stns/client.key"

\* ioutil.ReadFile: the bytes of the file, or an error
ReadFile(p) ==
  IF p = GoodCA THEN [err |-> NilError, data |-> <<"CERTIFICATE", "stns-ca">>]
  ELSE IF p = JunkCA THEN [err |-> NilError, data |-> <<"not a pem block">>]
  ELSE [err |-> Error("os.PathError", <<"open ", p, ": no such file">>),
        data |-> <<>>]

\* x509.CertPool.AppendCertsFromPEM: the pool with the certificates parsed
\* from the data added, and whether any was parsed
AppendCertsFromPEM(pool, data) ==
  IF Len(data) = 2 /\ data[1] = "CERTIFICATE"
    THEN [pool |-> pool \cup {data[2]}, ok |-> TRUE]
    ELSE [pool |-> pool, ok |-> FALSE]

\* tls.LoadX509KeyPair
LoadX509KeyPair(cert, key) ==
  IF cert = GoodCert /\ key = GoodKey
    THEN [err |-> NilError, cert |-> <<cert, key>>]
    ELSE [err |-> Error("tls", <<"failed to find any PEM data">>),
          cert |-> <<>>]

\* tlsConfig(opt): cfg is the *tls.Config (<<>> is nil).  RootCAs is the
\* *x509.CertPool (<<>> is nil, <<pool>> a pool, possibly empty);
\* rootsFromPEM records what AppendCertsFromPEM answered, which the code
\* drops.
tlsConfig(opt) ==
  LET read == ReadFile(opt.TLS.CA)
      app == AppendCertsFromPEM({}, read.data)
      pair == LoadX509KeyPair(opt.TLS.Cert, opt.TLS.Key)
      hasCA == opt.TLS.CA # ""
      hasPair == opt.TLS.Cert # "" /\ opt.TLS.Key # ""
      RootCAs == IF hasCA THEN <<app.pool>> ELSE <<>>
      Certificates == IF hasPair THEN <<pair.cert>> ELSE <<>>
      cfg == [InsecureSkipVerify |-> opt.SkipSSLVerify,
              RootCAs |-> RootCAs,
              rootsFromPEM |-> IF hasCA THEN app.ok ELSE TRUE,
              Certificates |-> Certificates]
  IN IF hasCA /\ read.err # NilError THEN [cfg |-> <<>>, err |-> read.err]
     ELSE IF hasPair /\ pair.err # NilError THEN [cfg |-> <<>>, err |-> pair.err]
     ELSE IF Len(Certificates) = 0 /\ RootCAs = <<>>
       THEN [cfg |-> <<>>, err |-> NilError]
     ELSE [cfg |-> <<cfg>>, err |-> NilError]

(* ------------------------------ options --------------------------------- *)

\* the zero value of Options, as the fields newClient and the client read
ZeroOptions ==
  [UserAgent |-> <<>>, RequestTimeout |-> 0, RequestRetry |-> 0,
   HttpKeepalive |-> FALSE, HttpProxy |-> <<>>, HttpHeaders |-> <<>>,
   AuthToken |-> "", User |-> "", Password |-> "", SkipSSLVerify |-> FALSE,
   TLS |-> [CA |-> "", Cert |-> "", Key |-> ""]]

(* ----------------------------- newClient -------------------------------- *)

UnixPlaceholder == <<"http", ":", "/", "/", "unix">>

\* retryablehttp.Client.StandardClient(): an *http.Client whose Transport is
\* the retrying round tripper around the retry client
StandardClient(retryclient) ==
  [Transport |-> [kind |-> "retryablehttp.RoundTripper",
                  RetryMax |-> retryclient.RetryMax]]

\* lines 83-93: the defaults newClient writes into the caller's Options
applyDefaults(opt) ==
  [opt EXCEPT
     !.UserAgent = IF @ = <<>> THEN <<"libstns-go", "/", version>> ELSE @,
     !.RequestTimeout = IF @ = 0 THEN DefaultTimeout ELSE @,
     !.RequestRetry = IF @ = 0 THEN DefaultRetry ELSE @]

\* lines 128-134: the proxy selection of the transport
transportProxy(opt) ==
  LET parsed == urlParse(opt.HttpProxy)
  IN IF opt.HttpProxy # <<>> /\ parsed.err = NilError
       THEN [from |-> "ProxyURL", url |-> parsed.url]
       ELSE [from |-> "ProxyFromEnvironment", url |-> <<>>]

\* line 136: the transport the finished http.Client sends through
installTransport(httpClient, tr) == [httpClient EXCEPT !.Transport = tr]

\* newClient(endpoint, opt); envErr is the outcome of env.Parse(opt).
\* client is the *client (<<>> is nil).
newClient(endpoint, opt0, envErr) ==
  LET opt == applyDefaults(opt0)
      retryclient == [RetryMax |-> opt.RequestRetry]
      httpClient == StandardClient(retryclient)
      isHTTPS == HasPrefix(endpoint, "https")
      isUnix == HasPrefix(endpoint, "unix")
      tc == tlsConfig(opt)
      u == urlParse(endpoint)
      tr == [kind |-> "http.Transport",
             DialTimeout |-> opt.RequestTimeout,
             DisableKeepAlives |-> ~opt.HttpKeepalive,
             TLSClientConfig |-> IF isHTTPS THEN tc.cfg ELSE <<>>,
             DialContext |-> IF isUnix /\ u.err = NilError
                               THEN <<u.url[1].Path>> ELSE <<>>,
             Proxy |-> transportProxy(opt)]
  IN IF envErr THEN [client |-> <<>>, err |-> Error("env", <<"parse error">>)]
     ELSE IF isHTTPS /\ tc.err # NilError THEN [client |-> <<>>, err |-> tc.err]
     ELSE IF isUnix /\ u.err # NilError THEN [client |-> <<>>, err |-> u.err]
     ELSE [client |-> <<[ApiEndpoint |-> IF isUnix THEN UnixPlaceholder
                                                   ELSE endpoint,
                         opt |-> opt,
                         httpClient |-> installTransport(httpClient, tr)]>>,
           err |-> NilError]

(* ----------------------------- RequestURL ------------------------------- *)

\* client.RequestURL(requestPath, query)
RequestURL(h, requestPath, query) ==
  LET parsed == urlParse(h.ApiEndpoint)
  IN IF parsed.err # NilError THEN parsed
     ELSE [err |-> NilError,
           url |-> <<[parsed.url[1] EXCEPT
                        !.Path = pathJoin(@, requestPath),
                        !.RawQuery = query]>>]

(* ---------------------------- http.Header ------------------------------- *)

\* http.Header.Add(k, v)
HeaderAdd(hdr, k, v) ==
  LET ck == CanonicalMIMEHeaderKey(k)
  IN [x \in DOMAIN hdr \cup {ck} |->
        IF x = ck
          THEN IF ck \in DOMAIN hdr THEN Append(hdr[ck], v) ELSE <<v>>
          ELSE hdr[x]]

\* http.Header.Set(k, v)
HeaderSet(hdr, k, v) ==
  LET ck == CanonicalMIMEHeaderKey(k)
  IN [x \in DOMAIN hdr \cup {ck} |-> IF x = ck THEN <<v>> ELSE hdr[x]]

RECURSIVE AddAll(_, _, _)
\* the range loop of setHeaders over h.opt.HttpHeaders, in iteration order
AddAll(hdr, m, order) ==
  IF order = <<>> THEN hdr
  ELSE AddAll(HeaderAdd(hdr, Head(order), m[Head(order)]), m, Tail(order))

\* the orders in which a range loop may visit the keys of map m
IterationOrders(m) ==
  {o \in [1..Cardinality(DOMAIN m) -> DOMAIN m] :
     \A i, j \in DOMAIN o : i # j => o[i] # o[j]}

\* fmt.Sprintf("token %s", token)
tokenValue(token) == <<"token ", token>>

\* the value http.Request.SetBasicAuth writes: "Basic " + base64(user:password)
basicValue(user, password) == <<"Basic ", "base64(", user, ":", password, ")">>

\* setHeaders as it would be if it set the user agent in the shared
\* h.opt.HttpHeaders map as well as on the request
setHeadersIntoOptions(h, req, order) ==
  LET h1 == AddAll(req.Header, h.opt.HttpHeaders, order)
      h2 == HeaderSet(h1, hUserAgent, h.opt.UserAgent)
  IN [h |-> [h EXCEPT !.opt.HttpHeaders =
                        HeaderSet(@, hUserAgent, h.opt.UserAgent)],
      req |-> [req EXCEPT !.Header = h2]]

\* client.setHeaders(req): both pointers the method holds, after the call
setHeaders(h, req, order) ==
  LET h1 == AddAll(req.Header, h.opt.HttpHeaders, order)
      h2 == HeaderSet(h1, hUserAgent, h.opt.UserAgent)
      h3 == IF h.opt.AuthToken # ""
              THEN HeaderSet(h2, hAuthorization, tokenValue(h.opt.AuthToken))
              ELSE h2
  IN [h |-> h, req |-> [req EXCEPT !.Header = h3]]

\* client.setBasicAuth(req): both pointers the method holds, after the call
setBasicAuth(h, req) ==
  [h |-> h,
   req |-> IF h.opt.User # "" /\ h.opt.Password # ""
             THEN [req EXCEPT !.Header =
                     HeaderSet(@, hAuthorization,
                               basicValue(h.opt.User, h.opt.Password))]
             ELSE req]

(* ------------------------------ transport ------------------------------- *)

\* the connection attempts one httpClient.Do makes before it gives up on a
\* transport that keeps failing: the retrying round tripper makes RetryMax
\* retries after the first attempt, a plain http.Transport makes no retry
doAttempts(httpClient) ==
  IF httpClient.Transport.kind = "retryablehttp.RoundTripper"
    THEN httpClient.Transport.RetryMax + 1
    ELSE 1

\* the address the transport asks its dialer for: the proxy's when one is
\* selected (envProxy is what ProxyFromEnvironment finds, <<>> for none),
\* else the host of the request URL
connectAddr(tr, req, envProxy) ==
  IF tr.kind = "http.Transport" /\ tr.Proxy.from = "ProxyURL"
    THEN tr.Proxy.url[1].Host
  ELSE IF envProxy # <<>> THEN envProxy
  ELSE req.URL.Host

\* dial as it would be had the DialContext of lines 122-124 not been used
dialByAddress(tr, network, addr) == [network |-> network, address |-> addr]

\* the dial of one connection attempt: lines 122-124 when DialContext was
\* installed, else the net.Dialer of lines 101-103
dial(tr, network, addr) ==
  IF tr.kind = "http.Transport" /\ tr.DialContext # <<>>
    THEN [network |-> "unix", address |-> tr.DialContext[1]]
    ELSE [network |-> network, address |-> addr]

(* ------------------------------- Request -------------------------------- *)

\* filterHeaders as it would be without the strings.ToLower of line 186
filterHeadersCaseSensitive(respHeader) ==
  [k \in {n \in DOMAIN respHeader : n \in supportHeaders} |->
     respHeader[k][1]]

\* lines 184-189: the response headers Request keeps
filterHeaders(respHeader) ==
  [k \in {n \in DOMAIN respHeader : ToLower(n) \in supportHeaders} |->
     respHeader[k][1]]

\* lines 216: fmt.Errorf("status code=%d, body=%s", code, string(body))
statusError(code, body) ==
  Error("status", <<"status code=", ToString(code), ", body=", body>>)

\* finishRequest as it would be if the default branch returned no Response
finishRequestDroppingResponse(resp) ==
  LET r == [StatusCode |-> resp.StatusCode, Body |-> resp.Body,
            Headers |-> filterHeaders(resp.Header)]
  IN IF resp.bodyErr
       THEN [resp |-> <<>>, err |-> Error("read", <<"unexpected EOF">>)]
     ELSE IF resp.StatusCode = StatusOK
       THEN [resp |-> <<r>>, err |-> NilError]
     ELSE [resp |-> <<>>, err |-> statusError(resp.StatusCode, resp.Body)]

\* finishRequest as it would be if the default branch returned a nil error
finishRequestIgnoringStatus(resp) ==
  LET r == [StatusCode |-> resp.StatusCode, Body |-> resp.Body,
            Headers |-> filterHeaders(resp.Header)]
  IN IF resp.bodyErr
       THEN [resp |-> <<>>, err |-> Error("read", <<"unexpected EOF">>)]
       ELSE [resp |-> <<r>>, err |-> NilError]

\* lines 182-217: what Request returns for a received response; bodyErr is
\* the outcome of ioutil.ReadAll(resp.Body)
finishRequest(resp) ==
  LET headers == filterHeaders(resp.Header)
      r == [StatusCode |-> resp.StatusCode, Body |-> resp.Body,
            Headers |-> headers]
  IN IF resp.bodyErr
       THEN [resp |-> <<>>, err |-> Error("read", <<"unexpected EOF">>)]
     ELSE IF resp.StatusCode = StatusOK
       THEN [resp |-> <<r>>, err |-> NilError]
     ELSE [resp |-> <<r>>, err |-> statusError(resp.StatusCode, resp.Body)]

\* lines 163-175: the request Request builds; order is the iteration order
\* of the HttpHeaders map.  h is the client after the two decorators ran.
buildRequest(h, requestPath, query, order) ==
  LET u == RequestURL(h, requestPath, query)
      req0 == [Method |-> "GET", URL |-> u.url[1], Header |-> <<>>]
      s1 == setHeaders(h, req0, order)
      s2 == setBasicAuth(s1.h, s1.req)
  IN IF u.err # NilError
       THEN [h |-> h, req |-> <<>>, err |-> u.err]
       ELSE [h |-> s2.h, req |-> <<s2.req>>, err |-> NilError]

(* ---------------------------- signatures -------------------------------- *)

LocalPrivateKey == "privA"
PublicOf(priv) == IF priv = "privA" THEN "pubA" ELSE "pubB"

\* STNS.Signature(payload): a signature by the local private key
Signature(payload) == <<"sig", LocalPrivateKey, payload>>
Dummy == <<"dummy", "", "">>

\* whether signature validates over payload under the public key
validates(pub, payload, signature) ==
  signature[1] = "sig" /\ PublicOf(signature[2]) = pub /\ signature[3] = payload

BodyKeyA == "{name:pyama,keys:[pubA]}"
BodyKeyB == "{name:pyama,keys:[pubB]}"
BodyNotFound == "not found"

\* the verification key a user record carries
keyOf(body) ==
  IF body = BodyKeyA THEN "pubA" ELSE IF body = BodyKeyB THEN "pubB" ELSE ""

\* STNS.VerifyWithUser, from the result of its key lookup through Request
verifyWithUser(ret, payload, signature) ==
  IF ret.err # NilError THEN [ok |-> FALSE, err |-> ret.err]
  ELSE [ok |-> validates(keyOf(ret.resp[1].Body), payload, signature),
        err |-> NilError]

(* ------------------------------- inputs --------------------------------- *)

HttpsEndpoint == <<"https", ":", "/", "/", "stns.lolipop.io", "/", "v1", "/">>
HttpEndpoint == <<"http", ":", "/", "/", "localhost:1104", "/", "v1">>
HttpBadEndpoint == <<"http", ":", "/", "/", BadEscape>>
SocketPath == <<"/", "var", "/", "run", "/", "stns.sock">>
UnixEndpoint == <<"unix", ":", "/", "/">> \o SocketPath
UnixHostEndpoint == <<"unix", ":", "/", "/", "run", "/", "stns.sock">>
UnixBadEndpoint == <<"unix", ":", "/", "/", BadEscape>>

Endpoints ==
  {HttpsEndpoint, HttpEndpoint, HttpBadEndpoint, UnixEndpoint,
   UnixHostEndpoint, UnixBadEndpoint}

hXCustom == <<"X","-","C","u","s","t","o","m">>
hxcustom == <<"x","-","c","u","s","t","o","m">>
hauthorization == <<"a","u","t","h","o","r","i","z","a","t","i","o","n">>

HeaderMaps ==
  { <<>>,
    [n \in {hXCustom, hxcustom} |-> IF n = hXCustom THEN <<"one">> ELSE <<"two">>],
    [n \in {hauthorization} |-> <<"custom-credential">>] }

Credentials ==
  { [AuthToken |-> "", User |-> "", Password |-> ""],
    [AuthToken |-> "t0ken", User |-> "", Password |-> ""],
    [AuthToken |-> "", User |-> "pyama", Password |-> "s3cret"],
    [AuthToken |-> "t0ken", User |-> "pyama", Password |-> "s3cret"],
    [AuthToken |-> "t0ken", User |-> "pyama", Password |-> ""] }

ProxyEndpoint == <<"http", ":", "/", "/", "proxy.example:3128">>
BadProxyEndpoint == <<"http", ":", "/", "/", BadEscape>>

\* Options that differ from the zero value in their trust material
TrustOptions ==
  { [ZeroOptions EXCEPT !.SkipSSLVerify = skip,
                        !.TLS = [CA |-> ca, Cert |-> cert, Key |-> key]] :
      skip \in BOOLEAN, ca \in {NoCA, GoodCA, MissingCA, JunkCA},
      cert \in {"", GoodCert, BadCert}, key \in {"", GoodKey} }

\* Options that differ from the zero value in retry, agent, timeout,
\* keep-alive and proxy
TransportOptions ==
  { [ZeroOptions EXCEPT !.RequestRetry = n, !.UserAgent = m.agent,
                        !.RequestTimeout = m.timeout,
                        !.HttpKeepalive = m.keepalive,
                        !.HttpProxy = m.proxy] :
      n \in 0..MaxRetry,
      m \in { [agent |-> <<>>, timeout |-> 0, keepalive |-> FALSE,
               proxy |-> <<>>],
              [agent |-> <<"stns-agent">>, timeout |-> 5, keepalive |-> TRUE,
               proxy |-> ProxyEndpoint],
              [agent |-> <<>>, timeout |-> 0, keepalive |-> FALSE,
               proxy |-> BadProxyEndpoint] } }

\* Options that differ from the zero value in credentials and custom headers
DecoratorOptions ==
  { [ZeroOptions EXCEPT !.AuthToken = c.AuthToken, !.User = c.User,
                        !.Password = c.Password, !.HttpHeaders = hm,
                        !.RequestRetry = 1] :
      c \in Credentials, hm \in HeaderMaps }

\* the (endpoint, Options) pairs clients are constructed from
ClientInputs ==
  ({HttpsEndpoint} \X TrustOptions)
    \cup (Endpoints \X TransportOptions)
    \cup ({HttpEndpoint, UnixEndpoint} \X DecoratorOptions)

\* the pairs of the concurrent specification
FewClientInputs ==
  {HttpEndpoint, UnixEndpoint} \X
    { o \in DecoratorOptions :
        /\ hXCustom \in DOMAIN o.HttpHeaders
        /\ o.AuthToken # "" /\ o.User # "" }

rUserHighestId == <<"U","s","e","r","-","H","i","g","h","e","s","t","-","I","d">>
rUserLowestId == <<"u","s","e","r","-","l","o","w","e","s","t","-","i","d">>
rGroupLowestId == <<"G","R","O","U","P","-","L","O","W","E","S","T","-","I","D">>
rContentType == <<"C","o","n","t","e","n","t","-","T","y","p","e">>
rSetCookie == <<"S","e","t","-","C","o","o","k","i","e">>
rXUserHighestId ==
  <<"X","-","U","s","e","r","-","H","i","g","h","e","s","t","-","I","d">>

\* a response with pagination headers (one of them with two values) among
\* others
PagedHeader ==
  [n \in {rUserHighestId, rUserLowestId, rGroupLowestId, rContentType,
          rSetCookie, rXUserHighestId} |->
     IF n = rUserHighestId THEN <<"2000", "9999">>
     ELSE IF n = rUserLowestId THEN <<"1000">>
     ELSE IF n = rGroupLowestId THEN <<"100">>
     ELSE IF n = rContentType THEN <<"application/json">>
     ELSE IF n = rSetCookie THEN <<"session=1">>
     ELSE <<"7">>]

PlainHeader == [n \in {rContentType} |-> <<"text/plain">>]

Statuses == {StatusOK, 404, 500}

\* the responses the remote service may give
Responses ==
  { [StatusCode |-> st, Header |-> hd, Body |-> b, bodyErr |-> e] :
      st \in Statuses, hd \in {PagedHeader, PlainHeader},
      b \in {BodyKeyA, BodyKeyB, BodyNotFound}, e \in BOOLEAN }

FewResponses ==
  { r \in Responses :
      /\ r.Header = PagedHeader /\ ~r.bodyErr
      /\ r.Body = (IF r.StatusCode = StatusOK THEN BodyKeyA ELSE BodyNotFound)
      /\ r.StatusCode # 500 }

\* the arguments of the Request calls callers make
RequestArgs ==
  { [path |-> <<"users">>, query |-> <<"name=pyama">>],
    [path |-> <<"/", "groups", "/">>, query |-> <<>>] }

\* the arguments of the VerifyWithUser calls callers make
VerifyArgs ==
  { [name |-> "pyama", payload |-> "secret message", signature |-> sg] :
      sg \in {Signature("secret message"), Signature("other message"), Dummy} }

EnvProxies == {<<>>, <<"envproxy.example:8080">>}

(* ------------------------------- state ---------------------------------- *)

VARIABLES
  stage,    \* "new" before newClient ran, then "constructed" or "failed"
  endpoint, \* the endpoint string the caller gave newClient
  client,   \* the *client newClient returned (<<>> is nil)
  newErr,   \* the error newClient returned
  calls     \* the calls in flight on the client, by caller

vars == <<stage, endpoint, client, newErr, calls>>

NoResult == [resp |-> <<>>, err |-> NilError]
NoVerdict == [ok |-> FALSE, err |-> NilError]

\* a caller that is not inside a call
IdleCall ==
  [pc |-> "idle", op |-> "", path |-> <<>>, query |-> <<>>,
   payload |-> "", signature |-> <<>>,
   req |-> <<>>, dials |-> <<>>, resp |-> <<>>,
   ret |-> NoResult, verdict |-> NoVerdict]

Callers == DOMAIN calls

InitWith(n) ==
  /\ stage = "new"
  /\ endpoint = <<>>
  /\ client = <<>>
  /\ newErr = NilError
  /\ calls = [c \in 1..n |-> IdleCall]

Init == InitWith(1)

InitConcurrent == InitWith(MaxCalls)

(* ------------------------------ actions --------------------------------- *)

\* newClient(endpoint, opt) on one of the given inputs
NewClientFrom(inputs) ==
  /\ stage = "new"
  /\ \E in \in inputs, envErr \in BOOLEAN :
       LET r == newClient(in[1], in[2], envErr)
       IN /\ endpoint' = in[1]
          /\ client' = r.client
          /\ newErr' = r.err
          /\ stage' = IF r.err = NilError THEN "constructed" ELSE "failed"
  /\ UNCHANGED calls

\* Request, lines 156-175: caller c enters Request and builds its request
Begin(c, op, requestPath, query, payload, signature) ==
  /\ stage = "constructed"
  /\ calls[c].pc = "idle"
  /\ \E order \in IterationOrders(client[1].opt.HttpHeaders) :
       LET b == buildRequest(client[1], requestPath, query, order)
           call == [IdleCall EXCEPT !.op = op, !.path = requestPath,
                                    !.query = query, !.payload = payload,
                                    !.signature = signature]
       IN /\ client' = <<b.h>>
          /\ calls' = [calls EXCEPT ![c] =
               IF b.err # NilError
                 THEN [call EXCEPT !.pc = "returned",
                                   !.ret = [resp |-> <<>>, err |-> b.err],
                                   !.verdict =
                                     IF op = "VerifyWithUser"
                                       THEN [ok |-> FALSE, err |-> b.err]
                                       ELSE NoVerdict]
                 ELSE [call EXCEPT !.pc = "do", !.req = b.req]]
  /\ UNCHANGED <<stage, endpoint, newErr>>

\* a caller calls client.Request(path, query)
BeginRequest(c, args) ==
  \E a \in args : Begin(c, "Request", a.path, a.query, "", <<>>)

\* a caller calls STNS.VerifyWithUser, which looks the user up through
\* client.Request
BeginVerify(c, args) ==
  \E a \in args :
    Begin(c, "VerifyWithUser", <<"users">>, <<"name=", a.name>>,
          a.payload, a.signature)

\* the caller's result once Request has returned ret
returned(call, ret) ==
  [call EXCEPT !.pc = "returned", !.ret = ret,
               !.verdict = IF call.op = "VerifyWithUser"
                             THEN verifyWithUser(ret, call.payload,
                                                 call.signature)
                             ELSE NoVerdict]

\* Request, line 177: one connection attempt of httpClient.Do fails
AttemptFails(c) ==
  /\ stage = "constructed"
  /\ calls[c].pc = "do"
  /\ \E envProxy \in EnvProxies :
       LET tr == client[1].httpClient.Transport
           req == calls[c].req[1]
           asked == connectAddr(tr, req, envProxy)
           target == dial(tr, "tcp", asked)
           dials == Append(calls[c].dials,
                           [asked |-> asked, target |-> target])
           call == [calls[c] EXCEPT !.dials = dials]
       IN calls' = [calls EXCEPT ![c] =
            IF Len(dials) < doAttempts(client[1].httpClient)
              THEN call
              ELSE returned(call,
                     [resp |-> <<>>,
                      err |-> Error("transport", <<"dial: connection refused">>)])]
  /\ UNCHANGED <<stage, endpoint, client, newErr>>

\* Request, line 177: a connection attempt of httpClient.Do gets a response
AttemptSucceeds(c, responses) ==
  /\ stage = "constructed"
  /\ calls[c].pc = "do"
  /\ \E envProxy \in EnvProxies, r \in responses :
       LET tr == client[1].httpClient.Transport
           req == calls[c].req[1]
           asked == connectAddr(tr, req, envProxy)
           target == dial(tr, "tcp", asked)
       IN calls' = [calls EXCEPT ![c] =
            [@ EXCEPT !.pc = "received",
                      !.dials = Append(@, [asked |-> asked,
                                           target |-> target]),
                      !.resp = <<r>>]]
  /\ UNCHANGED <<stage, endpoint, client, newErr>>

\* Request, lines 182-217: the response is filtered, read and returned
Finish(c) ==
  /\ calls[c].pc = "received"
  /\ calls' = [calls EXCEPT ![c] =
       returned(calls[c], finishRequest(calls[c].resp[1]))]
  /\ UNCHANGED <<stage, endpoint, client, newErr>>

\* the caller has taken its result and is ready for its next call
Return(c) ==
  /\ calls[c].pc = "returned"
  /\ calls' = [calls EXCEPT ![c] = IdleCall]
  /\ UNCHANGED <<stage, endpoint, client, newErr>>

Next ==
  \/ NewClientFrom(ClientInputs)
  \/ \E c \in Callers : BeginRequest(c, RequestArgs)
  \/ \E c \in Callers : BeginVerify(c, VerifyArgs)
  \/ \E c \in Callers : AttemptFails(c)
  \/ \E c \in Callers : AttemptSucceeds(c, Responses)
  \/ \E c \in Callers : Finish(c)
  \/ \E c \in Callers : Return(c)

Spec == Init /\ [][Next]_vars

NextConcurrent ==
  \/ NewClientFrom(FewClientInputs)
  \/ \E c \in Callers : BeginRequest(c, {a \in RequestArgs : a.query # <<>>})
  \/ \E c \in Callers : BeginVerify(c, {a \in VerifyArgs : a.signature = Dummy})
  \/ \E c \in Callers : AttemptFails(c)
  \/ \E c \in Callers : AttemptSucceeds(c, FewResponses)
  \/ \E c \in Callers : Finish(c)
  \/ \E c \in Callers : Return(c)

SpecConcurrent == InitConcurrent /\ [][NextConcurrent]_vars

(* ------------------------------- claims --------------------------------- *)

Returned(c) == calls[c].pc = "returned"
Contains(msg, text) == \E i \in 1..Len(msg) : msg[i] = text
Values(hdr, name) ==
  IF name \in DOMAIN hdr THEN {hdr[name][i] : i \in 1..Len(hdr[name])} ELSE {}
IsHTTPSClient == stage = "constructed" /\ HasPrefix(endpoint, "https")
\* the response of caller c was received and its body read
Received(c) == calls[c].resp # <<>> /\ ~calls[c].resp[1].bodyErr

\* C1: a Request on a client with RequestRetry = N >= 1 that ends in a
\* transport error has made exactly N + 1 connection attempts.
C1_RetryCeiling ==
  \A c \in Callers :
    (/\ Returned(c)
     /\ calls[c].ret.err.kind = "transport"
     /\ client[1].opt.RequestRetry >= 1)
      => Len(calls[c].dials) = client[1].opt.RequestRetry + 1

\* C2: for a response that was received and whose body was read, Request
\* returns a non-nil Response with that status code and body; the error is nil
\* exactly when the status is 200, and otherwise its message contains the
\* status code and the body text.
C2_ResponseAndError ==
  \A c \in Callers :
    (Returned(c) /\ Received(c)) =>
      LET raw == calls[c].resp[1]
          ret == calls[c].ret
      IN /\ ret.resp # <<>>
         /\ ret.resp[1].StatusCode = raw.StatusCode
         /\ ret.resp[1].Body = raw.Body
         /\ (ret.err = NilError) <=> (raw.StatusCode = 200)
         /\ raw.StatusCode # 200 =>
              /\ ret.err.kind # "nil"
              /\ Contains(ret.err.msg, ToString(raw.StatusCode))
              /\ Contains(ret.err.msg, raw.Body)

C2_Witness ==
  \E c \in Callers :
    /\ Returned(c) /\ Received(c)
    /\ calls[c].resp[1].StatusCode = 404
    /\ calls[c].resp[1].Body = BodyNotFound
    /\ calls[c].ret.resp # <<>>
    /\ calls[c].ret.err.msg = <<"status code=", "404", ", body=", "not found">>

\* C3: the Headers of a returned Response hold an entry for a raw response
\* header exactly when the header's lower-cased name is one of the four
\* pagination names; the entry keeps the raw name and the first value; this
\* holds for 200 and for every other status.
C3_HeaderAllowList ==
  \A c \in Callers :
    (Returned(c) /\ calls[c].ret.resp # <<>>) =>
      LET raw == calls[c].resp[1].Header
          kept == calls[c].ret.resp[1].Headers
      IN /\ DOMAIN kept \subseteq DOMAIN raw
         /\ \A n \in DOMAIN raw :
              /\ n \in DOMAIN kept <=> ToLower(n) \in supportHeaders
              /\ n \in DOMAIN kept => kept[n] = raw[n][1]

C3_Witness ==
  \E c \in Callers :
    /\ Returned(c)
    /\ calls[c].resp # <<>> /\ calls[c].resp[1].Header = PagedHeader
    /\ calls[c].resp[1].StatusCode # 200
    /\ calls[c].ret.resp # <<>>
    /\ DOMAIN calls[c].ret.resp[1].Headers =
         {rUserHighestId, rUserLowestId, rGroupLowestId}
    /\ calls[c].ret.resp[1].Headers[rUserHighestId] = "2000"

\* C4: with an auth token, a user and a password configured, the request sent
\* carries the "token <value>" Authorization header and the Basic credentials.
C4_TokenAndBasicBothSent ==
  \A c \in Callers :
    (/\ calls[c].req # <<>>
     /\ client[1].opt.AuthToken # ""
     /\ client[1].opt.User # "" /\ client[1].opt.Password # "")
      => LET sent == Values(calls[c].req[1].Header, hAuthorization)
         IN /\ tokenValue(client[1].opt.AuthToken) \in sent
            /\ basicValue(client[1].opt.User, client[1].opt.Password) \in sent

\* C5: whenever SkipSSLVerify is set, the TLS configuration attached to an
\* https client disables certificate-chain validation, whatever the CA,
\* certificate and key paths are.
C5_SkipVerifyKept ==
  (IsHTTPSClient /\ client[1].opt.SkipSSLVerify) =>
    LET tc == client[1].httpClient.Transport.TLSClientConfig
    IN tc # <<>> /\ tc[1].InsecureSkipVerify

\* C6: every connection attempt of a client constructed with the endpoint
\* unix://<path>, <path> absolute, dials the Unix socket at <path>, whatever
\* address the transport asked for, and request URLs are built from the
\* placeholder http://unix.
C6_UnixSocketDial ==
  (/\ stage = "constructed"
   /\ Len(endpoint) >= 5
   /\ SubSeq(endpoint, 1, 5) = <<"unix", ":", "/", "/", "/">>) =>
    LET sock == SubSeq(endpoint, 5, Len(endpoint))
    IN /\ client[1].ApiEndpoint = <<"http", ":", "/", "/", "unix">>
       /\ \A c \in Callers :
            /\ \A i \in 1..Len(calls[c].dials) :
                 calls[c].dials[i].target = [network |-> "unix", address |-> sock]
            /\ calls[c].req # <<>> =>
                 /\ calls[c].req[1].URL.Scheme = "http"
                 /\ calls[c].req[1].URL.Host = <<"unix">>

C6_Witness ==
  \E c \in Callers :
    /\ endpoint = UnixEndpoint
    /\ Len(calls[c].dials) >= 1
    /\ calls[c].dials[1].asked = <<"envproxy.example:8080">>
    /\ calls[c].dials[1].target.address = SocketPath
    /\ calls[c].req[1].URL.Path = <<"users">>

C8_LoneCertOrKeyRejected ==
  IsHTTPSClient =>
    (client[1].opt.TLS.Cert = "") = (client[1].opt.TLS.Key = "")

\* C9: an https client is constructed with a CA path only if the file at the
\* path was read and parsed as PEM certificates.
C9_UnparsableCARejected ==
  (IsHTTPSClient /\ client[1].opt.TLS.CA # "") =>
    /\ client[1].opt.TLS.CA # MissingCA
    /\ client[1].opt.TLS.CA # JunkCA
    /\ client[1].httpClient.Transport.TLSClientConfig # <<>>
    /\ client[1].httpClient.Transport.TLSClientConfig[1].RootCAs # <<{}>>

\* C10: after construction no step of any Request call, in any interleaving,
\* changes the client (endpoint, options, transport), and a step of one call
\* leaves the request and Response of every other call as they were.
C10_ClientNeverWritten ==
  [][stage = "constructed" =>
       /\ client' = client
       /\ endpoint' = endpoint
       /\ \A c, d \in Callers :
            (c # d /\ calls'[c] # calls[c]) => calls'[d] = calls[d]]_vars

C10_Witness ==
  /\ stage = "constructed"
  /\ MaxCalls >= 2
  /\ calls[1].pc = "returned" /\ calls[1].ret.err.kind = "status"
  /\ calls[2].pc = "received"
  /\ hXCustom \in DOMAIN client[1].opt.HttpHeaders
  /\ Len(calls[2].req[1].Header[hXCustom]) = 2

====
